---------------------------- MODULE Spec2Model ----------------------------
(***************************************************************************)
(* Model of the IRC protocol engine of src/src/irc.c: the connection       *)
(* object (struct irc_type), the caller operations set_nick and            *)
(* join_channel, and parse_irc_line with the handlers it dispatches to     *)
(* (PING, numeric replies, PRIVMSG, NOTICE, KICK), the reassembly of lines *)
(* from the socket's byte stream, the handlers forked for bot commands and *)
(* user_is_identified with the pipe it reads.                              *)
(*                                                                         *)
(* A C string is a sequence of one-character strings; the control          *)
(* characters are the atoms "CR", "LF" and "SOH".  NULL is the value Null. *)
(* Out-of-bounds accesses are modelled as a choice between the outcomes a  *)
(* build can produce; the step that performs one sets ub, and the model    *)
(* follows the program no further than that step.                          *)
(***************************************************************************)
EXTENDS Integers, Sequences, FiniteSets, TLC

VARIABLES
    nick,          \* char nick[NICKLEN]: the bytes before the first NUL
    user,          \* char user[USERLEN]: the bytes before the first NUL (set_user
                   \* is not modelled: the bytes are those calloc or an overrun left)
    channels,      \* char channels[MAXCHANS][CHANLEN]: row -> bytes before NUL
    channels_set,  \* int channels_set
    isConnected,   \* bool isConnected
    out,           \* the messages the last operation handed to the socket
    alive,         \* the main process is running
    ub,            \* the last operation accessed memory outside an array
    nickEnd,       \* one past the highest offset from nick[0] the last operation wrote
    chanIdx,       \* the row indexes of channels[][] the last operation used
    ret,           \* what the join_channel calls of the last operation returned
    last,          \* the last operation: its kind, its input, the handler the line
                   \* was routed to, the reply target irc_privmsg resolved, how its
                   \* fork ended, line_offset when it began, and what a child read
                   \* from the pipe
    children,      \* the handler invocations running in forked processes
    line,          \* char line[IRCLEN + 1]: the bytes before the first NUL
    line_offset,   \* size_t line_offset
    sock,          \* the bytes the server has sent and sock_readline has not taken
    pipe,          \* int pipe[2]: the access levels written and not yet read, each
                   \* with the nick of the answer it was decoded from
    pipe_open      \* the main process holds both descriptors of the pipe open

vars == <<nick, user, channels, channels_set, isConnected, out, alive, ub,
          nickEnd, chanIdx, ret, last, children, line, line_offset, sock,
          pipe, pipe_open>>

---------------------------------------------------------------------------
(* Sizes of irc.h (not part of the sources at hand), scaled down.          *)

MAXCHANS == 3
NICKLEN == 6
USERLEN == 3
CHANLEN == 5
IRCLEN == 64
NICKNAMEINUSE == 433
ENDOFMOTD == 376

(* The largest number of forked handler processes followed at once.        *)
MaxChildren == 1

Null == "NULL"

---------------------------------------------------------------------------
(* libc string functions.                                                  *)

Take(s, n) == IF Len(s) <= n THEN s ELSE SubSeq(s, 1, n)

Drop(s, n) == IF Len(s) <= n THEN <<>> ELSE SubSeq(s, n + 1, Len(s))

Has(s, c) == \E i \in 1..Len(s) : s[i] = c

Find(s, c) == IF Has(s, c) THEN CHOOSE i \in 1..Len(s) : s[i] = c /\ \A j \in 1..(i - 1) : s[j] # c
              ELSE 0

(* strtok(str, " ") on the string s: the token and what follows the        *)
(* delimiter that ended it; tok is Null when s holds no token.             *)
RECURSIVE SkipSp(_)
SkipSp(s) == IF s # <<>> /\ s[1] = " " THEN SkipSp(Tail(s)) ELSE s

strtok_sp(s) ==
    LET t == SkipSp(s)
        e == Find(t, " ")
    IN  IF t = <<>> THEN [tok |-> Null, rest |-> <<>>]
        ELSE IF e = 0 THEN [tok |-> t, rest |-> <<>>]
        ELSE [tok |-> SubSeq(t, 1, e - 1), rest |-> Drop(t, e)]

(* strtok(NULL, ""): the whole remainder, NULL when nothing remains.       *)
strtok_rest(s) == IF s = <<>> THEN Null ELSE s

Digits == {"0", "1", "2", "3", "4", "5", "6", "7", "8", "9"}

DigitVal(c) == CASE c = "0" -> 0 [] c = "1" -> 1 [] c = "2" -> 2 [] c = "3" -> 3
                 [] c = "4" -> 4 [] c = "5" -> 5 [] c = "6" -> 6 [] c = "7" -> 7
                 [] c = "8" -> 8 [] c = "9" -> 9

(* atoi: the value of the longest prefix of digits, 0 when there is none.  *)
RECURSIVE AtoiAcc(_, _)
AtoiAcc(s, acc) == IF s # <<>> /\ s[1] \in Digits
                   THEN AtoiAcc(Tail(s), acc * 10 + DigitVal(s[1]))
                   ELSE acc

atoi(s) == IF s # <<>> /\ s[1] = "-" THEN 0 - AtoiAcc(Tail(s), 0)
           ELSE IF s # <<>> /\ s[1] = "+" THEN AtoiAcc(Tail(s), 0)
           ELSE AtoiAcc(s, 0)

(* strncpy(dst, src, n): the bytes of dst before a NUL afterwards; with    *)
(* Len(src) >= n no NUL is stored and dst holds n bytes unterminated.      *)
strncpy(src, n) == Take(src, n)

Max(a, b) == IF a >= b THEN a ELSE b

---------------------------------------------------------------------------
(* The words of the protocol, as C strings.                                *)

sNICK == <<"N", "I", "C", "K">>
sJOIN == <<"J", "O", "I", "N">>
sPONG == <<"P", "O", "N", "G">>
sPING == <<"P", "I", "N", "G">>
sPRIVMSG == <<"P", "R", "I", "V", "M", "S", "G">>
sNOTICE == <<"N", "O", "T", "I", "C", "E">>
sKICK == <<"K", "I", "C", "K">>
sMODE == <<"M", "O", "D", "E">>
sVERSION == <<"V", "E", "R", "S", "I", "O", "N">>
sList == <<"l", "i", "s", "t">>
sMagkas == <<" ", "m", "a", "g", "k", "a", "s", ".", ".", ".">>
sListReply == <<"l", "i", "s", "t", " ", "/", " ", "h", "e", "l", "p">>
sBotVersion == <<"v", "1">>
sNickServ == <<"N", "i", "c", "k", "S", "e", "r", "v">>
sACC == <<"A", "C", "C">>
sRegistered == <<"T", "h", "i", "s", " ", "n", "i", "c", "k", "n", "a", "m", "e", " ",
                 "i", "s", " ", "r", "e", "g", "i", "s", "t", "e", "r", "e", "d">>
sIdentify == <<"i", "d", "e", "n", "t", "i", "f", "y", " ">>
sPassword == <<"p", "w">>
sIdent == <<"i", "d">>
CRLF == <<"CR", "LF">>

(* starts_with (helper.c, not part of the sources at hand): prefix test.   *)
starts_with(s, p) == Len(s) >= Len(p) /\ SubSeq(s, 1, Len(p)) = p

(* null_terminate(buf, c) (helper.c, not part of the sources at hand):     *)
(* cuts buf at the first c and reports whether there was one.              *)
null_terminate_ok(buf, c) == Has(buf, c)

null_terminate(buf, c) == IF Has(buf, c) THEN SubSeq(buf, 1, Find(buf, c) - 1) ELSE buf

(* function_lookup (gperf.h, not part of the sources at hand): the         *)
(* handler registered under exactly this name, or NULL.  The registry is   *)
(* external; "id" stands for a bot command whose handler asks              *)
(* user_is_identified about the sender.                                    *)
function_lookup(name) ==
    CASE name = sPRIVMSG -> "irc_privmsg"
      [] name = sNOTICE -> "irc_notice"
      [] name = sKICK -> "irc_kick"
      [] name = sList -> "list"
      [] name = sIdent -> "identified"
      [] OTHER -> Null

---------------------------------------------------------------------------
(* The state an operation works on, as one record.                         *)

World == [nick |-> nick, user |-> user, channels |-> channels,
          channels_set |-> channels_set, isConnected |-> isConnected,
          out |-> <<>>, alive |-> alive, ub |-> FALSE,
          nickEnd |-> 0, chanIdx |-> {}, ret |-> <<>>,
          route |-> "none", target |-> Null, spawn |-> <<>>,
          pipe |-> pipe, pipe_open |-> pipe_open, fork |-> "none"]

(* The C string read at server->nick: a nick that fills nick[] has no NUL  *)
(* of its own and runs on into user[], the next member of the struct.      *)
NickStr(w) == IF Len(w.nick) < NICKLEN THEN w.nick ELSE w.nick \o w.user

(* _irc_command: "<type> <target> :<msg>\r\n", or "<type> <target>\r\n"    *)
(* when msg is empty (the wrappers pass no format, line 14), each cut to   *)
(* its buffer by snprintf, handed to sock_write_non_blocking.              *)
irc_command(w, type, target, msg) ==
    LET m == Take(msg, IRCLEN - 50 - 1)
        irc_msg == IF m # <<>>
                   THEN Take(type \o <<" ">> \o target \o <<" ", ":">> \o m \o CRLF, IRCLEN - 1)
                   ELSE Take(type \o <<" ">> \o target \o CRLF, IRCLEN - 1)
    IN  [w EXCEPT !.out = Append(@, irc_msg)]

irc_nick_command(w, target) == irc_command(w, sNICK, target, <<>>)
irc_channel_command(w, target) == irc_command(w, sJOIN, target, <<>>)
irc_ping_command(w, target) == irc_command(w, sPONG, target, <<>>)

(* send_message and send_notice (irc.h, not part of the sources at hand).  *)
send_message(w, target, msg) == irc_command(w, sPRIVMSG, target, msg)
send_notice(w, target, msg) == irc_command(w, sNOTICE, target, msg)

(* set_nick: strncpy into nick[], then NICK with the string at nick.       *)
set_nick(w, n) ==
    LET w1 == [w EXCEPT !.nick = strncpy(n, NICKLEN),
                        !.nickEnd = Max(@, NICKLEN)]
    IN  irc_nick_command(w1, NickStr(w1))

---------------------------------------------------------------------------
(* The members of struct irc_type next to channels[][], as bytes.          *)

Pad(s, n) == [k \in 1..n |-> IF k <= Len(s) THEN s[k] ELSE "NUL"]

CStr(bytes) == IF Has(bytes, "NUL") THEN SubSeq(bytes, 1, Find(bytes, "NUL") - 1) ELSE bytes

(* The character codes of the bytes a channel name holds.                  *)
Ord(c) == CASE c = "NUL" -> 0 [] c = "#" -> 35 [] c = "a" -> 97 [] c = "b" -> 98
            [] c = "c" -> 99 [] c = "d" -> 100

(* nick[] and user[] precede channels[][]: the row channels[-1] is the     *)
(* last CHANLEN bytes of nick[NICKLEN] followed by user[USERLEN].          *)
IdMem(w) == Pad(w.nick, NICKLEN) \o Pad(w.user, USERLEN)

RowBefore(w) == CStr(SubSeq(IdMem(w), NICKLEN + USERLEN - CHANLEN + 1, NICKLEN + USERLEN))

(* strncpy(channels[-1], src, CHANLEN): nick[] and user[] afterwards.      *)
WriteRowBefore(w, src) ==
    LET m == SubSeq(IdMem(w), 1, NICKLEN + USERLEN - CHANLEN) \o Pad(strncpy(src, CHANLEN), CHANLEN)
    IN  [w EXCEPT !.nick = CStr(SubSeq(m, 1, NICKLEN)),
                  !.user = CStr(SubSeq(m, NICKLEN + 1, NICKLEN + USERLEN))]

(* channels_set and isConnected follow channels[][], after pad bytes of    *)
(* alignment: strncpy(channels[MAXCHANS], src, CHANLEN) stores its CHANLEN *)
(* bytes over them (little-endian int; bytes it does not reach are kept).  *)
WriteRowAfter(w, src, pad) ==
    LET b == Pad(strncpy(src, CHANLEN), CHANLEN)
        old == [k \in 0..3 |-> IF k = 0 THEN w.channels_set % 256 ELSE 0]
        byte(k) == IF pad + k < CHANLEN THEN Ord(b[pad + k + 1]) ELSE old[k]
    IN  [w EXCEPT !.channels_set = byte(0) + 256 * byte(1) + 65536 * byte(2)
                                   + 16777216 * byte(3),
                  !.isConnected = IF pad + 4 < CHANLEN THEN Ord(b[pad + 5]) # 0 ELSE @]

InRow(i) == i \in 0..(MAXCHANS - 1)

---------------------------------------------------------------------------
(* join_channel (lines 100-122).  The result is the set of outcomes.       *)

RECURSIVE Replay(_, _)
Replay(w, i) == IF i < w.channels_set
                THEN Replay(irc_channel_command([w EXCEPT !.chanIdx = @ \cup {i}], w.channels[i]), i + 1)
                ELSE [w EXCEPT !.ret = Append(@, i)]

(* A slip of the capacity test.                                            *)
join_full_above(n) == n > MAXCHANS

join_full(n) == n = MAXCHANS

join_channel(w, channel) ==
    IF channel # Null
    THEN IF channel = <<>> \/ channel[1] # "#"
         THEN {[w EXCEPT !.alive = FALSE]}                      \* assert
         ELSE IF join_full(w.channels_set)
         THEN {[w EXCEPT !.ret = Append(@, -1)]}
         ELSE LET i == w.channels_set
                  w1 == [w EXCEPT !.channels_set = i + 1, !.chanIdx = @ \cup {i},
                                  !.ret = Append(@, 1)]
                  stored == strncpy(channel, CHANLEN)
                  sent(x) == IF x.isConnected THEN irc_channel_command(x, stored) ELSE x
              IN  IF InRow(i)
                  THEN {sent([w1 EXCEPT !.channels[i] = stored])}
                  ELSE \* the row written lies outside channels[][]
                       {[w EXCEPT !.alive = FALSE, !.ub = TRUE, !.chanIdx = @ \cup {i}],
                        sent([(IF i = -1 THEN WriteRowBefore(w1, channel) ELSE w1)
                                 EXCEPT !.ub = TRUE])}
    ELSE IF w.isConnected THEN {Replay(w, 0)} ELSE {[w EXCEPT !.ret = Append(@, 0)]}

---------------------------------------------------------------------------
(* numeric_reply (lines 185-198).                                          *)

numeric_reply(w, reply) ==
    IF reply = NICKNAMEINUSE
    THEN LET s == NickStr(w)
             e == Len(s) + 2          \* strcat stores "_" and the NUL after it
             t == s \o <<"_">>
         IN  IF e <= NICKLEN
             THEN {set_nick([w EXCEPT !.nick = t, !.nickEnd = Max(@, e)], t)}
             ELSE \* strcat stores past nick[]: a fortified build aborts,
                  \* another one stores into user[]
                  {[w EXCEPT !.alive = FALSE, !.ub = TRUE],
                   set_nick([w EXCEPT !.nick = Take(t, NICKLEN),
                                      !.user = Drop(t, NICKLEN),
                                      !.nickEnd = Max(@, e),
                                      !.ub = TRUE], t)}
    ELSE IF reply = ENDOFMOTD
    THEN join_channel([w EXCEPT !.isConnected = TRUE], Null)
    ELSE {w}

---------------------------------------------------------------------------
(* irc_kick (lines 292-324).  pdata = [sender, command, message].          *)

(* The loop of lines 316-318: the index of the first row among the         *)
(* channels_set recorded ones that holds target, channels_set if none.     *)
kick_find(w, target) ==
    LET hits == {j \in 0..(w.channels_set - 1) : w.channels[j] = target}
    IN  IF hits = {} THEN w.channels_set
        ELSE CHOOSE j \in hits : \A k \in hits : j <= k

(* A slip of the removal: the count goes down and the last row is not     *)
(* copied into the row of the kicked channel.                              *)
kick_remove_noswap(w, i) == {[w EXCEPT !.channels_set = @ - 1]}

(* Line 320: strncpy(channels[i], channels[--channels_set], CHANLEN).      *)
kick_remove(w, i) ==
    LET n == w.channels_set - 1
        w1 == [w EXCEPT !.channels_set = n,
                        !.chanIdx = @ \cup (0..(IF i < n THEN i ELSE n)) \cup {i, n}]
    IN  IF InRow(i) /\ InRow(n)
        THEN {[w1 EXCEPT !.channels[i] = strncpy(w.channels[n], CHANLEN)]}
        ELSE IF InRow(i)
        THEN \* the row read is channels[-1]
             {[w1 EXCEPT !.channels[i] = strncpy(RowBefore(w), CHANLEN), !.ub = TRUE]}
        ELSE \* the row written is channels[MAXCHANS]
             {[WriteRowAfter(w1, w.channels[n], pad) EXCEPT !.ub = TRUE] : pad \in 0..3}
             \cup {[w1 EXCEPT !.alive = FALSE, !.ub = TRUE]}

(* Slips of the recovery: the channel is removed and not joined again; the *)
(* message to the kicker goes out before the JOIN.                         *)
kick_recover_norejoin(w, target, sender) ==
    {IF x.alive THEN send_message(x, target, sender \o sMagkas) ELSE x :
        x \in kick_remove(w, kick_find(w, target))}

kick_recover_msgfirst(w, target, sender) ==
    UNION {IF x.alive THEN join_channel(send_message(x, target, sender \o sMagkas), target)
           ELSE {x} : x \in kick_remove(w, kick_find(w, target))}

kick_recover(w, target, sender) ==
    LET removed == kick_remove(w, kick_find(w, target))
        joined == UNION {IF x.alive THEN join_channel(x, target) ELSE {x} : x \in removed}
    IN  {IF x.alive THEN send_message(x, target, sender \o sMagkas) ELSE x : x \in joined}

irc_kick(w, pdata) ==
    IF ~null_terminate_ok(pdata.sender, "!") THEN {w}
    ELSE LET sender == null_terminate(pdata.sender, "!")
             t == strtok_sp(pdata.message)
             v == strtok_sp(t.rest)
         IN  IF t.tok = Null THEN {w}
             ELSE IF v.tok = Null
             THEN \* lines 308 and 311 are handed the NULL of strtok: the
                  \* process dies of it, or the comparison reads as unequal
                  {[w EXCEPT !.alive = FALSE, !.ub = TRUE], [w EXCEPT !.ub = TRUE]}
             ELSE IF v.tok = NickStr(w) THEN kick_recover(w, t.tok, sender)
             ELSE {w}

---------------------------------------------------------------------------
(* irc_privmsg (lines 200-250).                                            *)

(* list (bot.c, lines 21-24).                                              *)
list(w, pdata) == send_message(w, pdata.target, sListReply)

(* Slips of the fork: the handler is called in the main process, in place  *)
(* of the child or when there is no child.                                 *)
fork_parent_inline(w, child) == [list(w, child) EXCEPT !.fork = "child"]

fork_failed_inline(w, child) == [list(w, child) EXCEPT !.fork = "failed"]

(* The switch of lines 237-243 in the parent: after a fork that made a     *)
(* child with a copy of server and pdata, the parent leaves the switch;    *)
(* after one that failed it prints the error and leaves the switch.        *)
fork_parent(w, child) == [w EXCEPT !.spawn = <<child>>, !.fork = "child"]

fork_failed(w, child) == [w EXCEPT !.fork = "failed"]

(* A slip of the reply target: the target token is kept as it is.          *)
reply_target_literal(tok, sender) == tok

(* The reply target of lines 209-215.                                      *)
reply_target(tok, sender) == IF ~Has(tok, "#") THEN sender ELSE tok

irc_privmsg(w, pdata) ==
    IF ~null_terminate_ok(pdata.sender, "!") THEN {w}
    ELSE LET sender == null_terminate(pdata.sender, "!")
             t == strtok_sp(pdata.message)
             c == strtok_sp(t.rest)
         IN  IF t.tok = Null THEN {w}
             ELSE IF c.tok = Null THEN {w}
             ELSE LET target == reply_target(t.tok, sender)
                      command == Tail(c.tok)
                      message == strtok_rest(c.rest)
                      w1 == [w EXCEPT !.target = target]
                  IN  IF command # <<>> /\ command[1] = "!"
                      THEN LET flist == function_lookup(Tail(command))
                           IN  IF flist = Null THEN {w1}
                               ELSE \* fork(): a child with its copy, or -1
                                    LET child == [function |-> flist,
                                                  sender |-> sender,
                                                  command |-> Tail(command),
                                                  target |-> target,
                                                  message |-> message,
                                                  pc |-> "start",
                                                  stale |-> 0]
                                    IN  {fork_parent(w1, child), fork_failed(w1, child)}
                      ELSE IF command # <<>> /\ command[1] = "SOH"
                      THEN IF starts_with(Tail(command), sVERSION)
                           THEN {send_notice(w1, sender,
                                     <<"SOH">> \o sVERSION \o <<" ">> \o sBotVersion \o <<"SOH">>)}
                           ELSE {w1}
                      ELSE {w1}


---------------------------------------------------------------------------
(* irc_notice (lines 252-290) and user_is_identified (lines 68-80).        *)

(* strstr: where p first occurs in s, 0 when it does not.                  *)
StrStr(s, p) ==
    LET at == {i \in 1..(Len(s) - Len(p) + 1) : SubSeq(s, i, i + Len(p) - 1) = p}
    IN  IF at = {} THEN 0 ELSE CHOOSE i \in at : \A j \in at : i <= j

(* The nick an answer of the service speaks of ("<nick> ACC <level>").     *)
(* irc_notice does not read it; the pipe entry keeps it beside the level.  *)
AnswerNick(message) ==
    LET t == strtok_sp(message) IN IF t.tok = Null THEN <<>> ELSE t.tok

(* Lines 280-282: the level after "ACC " goes into pipe[1].                *)
pipe_write(w, message, test) ==
    LET auth_level == atoi(Drop(message, test - 1 + 4))
    IN  IF w.pipe_open
        THEN [w EXCEPT !.pipe = Append(@, [level |-> auth_level,
                                           nick |-> AnswerNick(message)])]
        ELSE w

irc_notice(w, pdata) ==
    IF ~null_terminate_ok(pdata.sender, "!") THEN {w}
    ELSE LET sender == null_terminate(pdata.sender, "!")
             t == strtok_sp(pdata.message)
             m == strtok_rest(t.rest)
         IN  IF t.tok = Null THEN {w}
             ELSE IF m = Null THEN {w}
             ELSE LET message == Tail(m)
                      test == StrStr(message, sACC)
                  IN  IF sender # sNickServ THEN {w}
                      ELSE IF test # 0 THEN {pipe_write(w, message, test)}
                      ELSE IF starts_with(message, sRegistered)
                      THEN {send_message(w, sender, sIdentify \o sPassword)}
                      ELSE {w}

(* user_is_identified, line 72: the query for nick goes to the service.    *)
user_is_identified_query(w, n) == send_message(w, sNickServ, sACC \o <<" ">> \o n)

(* A slip of the result: any level above 0 counts as verified.             *)
auth_verified_any(auth_level) == auth_level > 0

(* Line 79.                                                                *)
auth_verified(auth_level) == auth_level = 3

(* A slip of the isolation: the handler shares the descriptors of the main *)
(* process, and closing them closes the pipe there.                        *)
close_shared(open) == FALSE

(* Lines 76-77 in a forked child: the descriptors closed are the child's   *)
(* own; those of the main process stay as they are.                        *)
close_in_child(open) == open

---------------------------------------------------------------------------
(* parse_irc_line (lines 124-183) on a complete line read from the socket. *)

(* flist->function(server, pdata) of line 180.  list is a handler of bot   *)
(* commands: called here it gets a NULL target, which the formatting of    *)
(* the message either prints as "(null)" or fails on.                      *)
call_function(w, flist, pdata) ==
    CASE flist = "irc_privmsg" -> irc_privmsg(w, pdata)
      [] flist = "irc_kick" -> irc_kick(w, pdata)
      [] flist = "irc_notice" -> irc_notice(w, pdata)
      [] flist = "list" ->
            {[w EXCEPT !.alive = FALSE, !.ub = TRUE],
             [list(w, [target |-> <<"(", "n", "u", "l", "l", ")">>]) EXCEPT !.ub = TRUE]}

(* The test of lines 173-174: atoi of the command token is not 0.          *)
is_numeric(command) == atoi(command) # 0

(* Lines 152-182: the line was no PING.                                    *)
parse_generic(w, ln) ==
    LET s == strtok_sp(Tail(ln))
        c == strtok_sp(s.rest)
        message == strtok_rest(c.rest)
        pdata == [sender |-> s.tok, command |-> c.tok, message |-> message]
    IN  IF s.tok = Null \/ c.tok = Null \/ message = Null
        THEN {[w EXCEPT !.route = "dropped"]}
        ELSE IF is_numeric(c.tok)
        THEN numeric_reply([w EXCEPT !.route = "numeric"], atoi(c.tok))
        ELSE LET flist == function_lookup(c.tok)
             IN  IF flist = Null THEN {[w EXCEPT !.route = "unknown"]}
                 ELSE call_function([w EXCEPT !.route = flist], flist, pdata)

(* A slip the PING branch could have: PONG is sent and control falls on    *)
(* into the generic parsing.                                               *)
parse_irc_line_noreturn(w, ln) ==
    IF starts_with(ln, sPING)
    THEN parse_generic(irc_ping_command(w, Drop(ln, 5)), ln)
    ELSE parse_generic(w, ln)

parse_irc_line(w, ln) ==
    IF starts_with(ln, sPING)
    THEN {[irc_ping_command(w, Drop(ln, 5)) EXCEPT !.route = "ping"]}
    ELSE parse_generic(w, ln)

---------------------------------------------------------------------------
(* The line transport: sock_readline and lines 131-140 of parse_irc_line.  *)

(* sock_readline (socket.c, not part of the sources at hand), called with  *)
(* buf = the bytes of line[] before line + line_offset and the bytes the   *)
(* socket has ready: it stores them after buf up to the first CRLF, which  *)
(* it replaces by a NUL, or all of them, with a NUL after the last one     *)
(* (after buf when there is none), and then reports that it would block.   *)
(* The lines of the model are shorter than IRCLEN, so the length of line   *)
(* 132 never binds.                                                        *)
sock_readline(buf, avail) ==
    LET b == buf \o avail
        ends == {i \in (Len(buf) + 1)..Len(b) : i >= 2 /\ b[i - 1] = "CR" /\ b[i] = "LF"}
        e == CHOOSE i \in ends : \A j \in ends : i <= j
    IN  IF ends = {} THEN [buf |-> b, rest |-> <<>>, n |-> "EAGAIN"]
        ELSE [buf |-> SubSeq(b, 1, e - 2), rest |-> Drop(avail, e - Len(buf)),
              n |-> "line"]

(* A slip of line 137: the offset is cleared on an incomplete read too.    *)
eagain_offset_zero(buf) == 0

(* Line 137: line_offset = strlen(server->line).                           *)
eagain_offset(buf) == Len(buf)

(* The string at line[] once the line has been parsed: strtok (line 154)   *)
(* puts a NUL after the sender, and the handlers cut the sender at '!'.    *)
line_residue(ln, route) ==
    IF starts_with(ln, sPING) \/ ln = <<>> THEN ln
    ELSE LET t == SkipSp(Tail(ln))
             e == Find(t, " ")
             tok == IF e = 0 THEN t ELSE SubSeq(t, 1, e - 1)
             cut == IF route \in {"irc_privmsg", "irc_notice", "irc_kick"} /\ Has(tok, "!")
                    THEN SubSeq(tok, 1, Find(tok, "!") - 1)
                    ELSE tok
         IN  SubSeq(ln, 1, Len(ln) - Len(t)) \o cut

---------------------------------------------------------------------------
(* The inputs.                                                             *)

NickInputs == {<<"b", "o", "t">>, <<"b", "o", "t", "b", "o", "t", "x">>}

ChanInputs == {<<"#", "a">>, <<"#", "b">>, <<"#", "c">>}

Words(a, b) == a \o <<" ">> \o b

FromServer == <<":", "s">>
FromUser == <<":", "k", "!", "h">>
Payload == <<":", "x">>
ChanA == <<"#", "a">>
ChanB == <<"#", "b">>
Nick3 == <<"b", "o", "t">>

(* The lines a server sends to a client whose nick reads n: PING, numeric  *)
(* replies, an unregistered command, and KICK and PRIVMSG from a user      *)
(* (nick!host) and from a server name.                                     *)
LinePing == Words(sPING, <<":", "t">>)
LinePingDigits == Words(sPING, Words(<<"4", "3", "3">>, <<"x">>))
LineNickInUse == Words(Words(FromServer, <<"4", "3", "3">>), Words(<<"*">>, Payload))
LineEndOfMotd == Words(Words(FromServer, <<"3", "7", "6">>), Words(<<"*">>, Payload))
LineMode == Words(Words(FromServer, sMODE), Words(<<"*">>, Payload))

ServerLines == {LinePing, LinePingDigits, LineNickInUse, LineEndOfMotd, LineMode}

LineKick(from, victim) == Words(Words(from, sKICK), Words(Words(ChanB, victim), Payload))

KickLines(n) == {LineKick(FromUser, n), LineKick(FromUser, <<"z">>), LineKick(FromServer, n)}

LineCommand(from, to) == Words(Words(from, sPRIVMSG), Words(to, <<":", "!">> \o sList))
LineVersion(to) == Words(Words(FromUser, sPRIVMSG), Words(to, <<":", "SOH">> \o sVERSION \o <<"SOH">>))

PrivmsgLines(n) == {LineCommand(FromUser, ChanA), LineCommand(FromUser, n),
                    LineCommand(FromServer, ChanA), LineVersion(ChanA)}

InboundLines(n) ==
    ServerLines \cup (IF n = <<>> THEN {} ELSE KickLines(n) \cup PrivmsgLines(n))

---------------------------------------------------------------------------
(* The state after irc_connect (lines 35-56): CALLOC_W zeroes the struct.  *)

Init ==
    /\ nick = <<>>
    /\ user = <<>>
    /\ channels = [i \in 0..(MAXCHANS - 1) |-> <<>>]
    /\ channels_set = 0
    /\ isConnected = FALSE
    /\ out = <<>>
    /\ alive = TRUE
    /\ ub = FALSE
    /\ nickEnd = 0
    /\ chanIdx = {}
    /\ ret = <<>>
    /\ last = [op |-> "irc_connect", arg |-> <<>>, route |-> "none", target |-> Null,
               fork |-> "none", level |-> 0, answer |-> <<>>, stale |-> FALSE,
               verified |-> FALSE, offset |-> 0]
    /\ children = <<>>
    /\ line = <<>>
    /\ line_offset = 0
    /\ sock = <<>>
    /\ pipe = <<>>
    /\ pipe_open = TRUE

Running == alive /\ ~ub

Commit(w, op, arg) ==
    /\ nick' = w.nick
    /\ user' = w.user
    /\ channels' = w.channels
    /\ channels_set' = w.channels_set
    /\ isConnected' = w.isConnected
    /\ out' = w.out
    /\ alive' = w.alive
    /\ ub' = w.ub
    /\ nickEnd' = w.nickEnd
    /\ chanIdx' = w.chanIdx
    /\ ret' = w.ret
    /\ last' = [op |-> op, arg |-> arg, route |-> w.route, target |-> w.target,
                fork |-> w.fork, level |-> 0, answer |-> <<>>, stale |-> FALSE,
                verified |-> FALSE, offset |-> line_offset]
    /\ children' = children \o w.spawn
    /\ pipe' = w.pipe
    /\ pipe_open' = w.pipe_open

(* The caller (main) sets the nick.                                        *)
SetNick ==
    /\ Running
    /\ \E n \in NickInputs : Commit(set_nick(World, n), "set_nick", n)
    /\ UNCHANGED <<line, line_offset, sock>>

(* The caller asks for a channel.                                          *)
JoinChannel ==
    /\ Running
    /\ \E c \in ChanInputs : \E w \in join_channel(World, c) :
          Commit(w, "join_channel", c)
    /\ UNCHANGED <<line, line_offset, sock>>

(* One iteration of the main loop in which sock_readline hands over a      *)
(* complete line at once: line_offset is 0 before and after.  The bytes of *)
(* line[] and of the socket are followed by ReadSock, not here.            *)
RecvLine ==
    /\ Running
    /\ \E ln \in InboundLines(NickStr(World)) :
          \E w \in parse_irc_line(World, ln) :
             /\ Len(children) + Len(w.spawn) <= MaxChildren
             /\ Commit(w, "parse_irc_line", ln)
    /\ UNCHANGED <<line, line_offset, sock>>

(* A forked child runs its handler on its copy and exits.                  *)
ChildRun ==
    /\ ~ub
    /\ \E k \in 1..Len(children) :
          LET c == children[k]
              w == list([World EXCEPT !.route = "child"], c)
          IN  /\ c.function = "list"
              /\ out' = w.out
              /\ last' = [op |-> "child", arg |-> c.command, route |-> "child",
                          target |-> c.target, fork |-> "none", level |-> 0,
                          answer |-> <<>>, stale |-> FALSE, verified |-> FALSE,
                          offset |-> 0]
              /\ children' = SubSeq(children, 1, k - 1) \o SubSeq(children, k + 1, Len(children))
              /\ nickEnd' = 0
              /\ chanIdx' = {}
              /\ ret' = <<>>
              /\ UNCHANGED <<nick, user, channels, channels_set, isConnected,
                             alive, ub, line, line_offset, sock, pipe, pipe_open>>

Next == SetNick \/ JoinChannel \/ RecvLine \/ ChildRun

Spec == Init /\ [][Next]_vars

---------------------------------------------------------------------------
(* The byte stream: the server sends lines, the main loop reads what has   *)
(* arrived, in chunks of any size.                                         *)

(* The most lines sent and not yet taken from the socket.                  *)
MaxPending == 2

TransportLines == {LinePing, LineEndOfMotd, LineCommand(FromUser, ChanA)}

PendingLines(s) == Cardinality({i \in 1..Len(s) : s[i] = "LF"})

(* The server sends a line.                                                *)
ServerSend ==
    /\ Running
    /\ PendingLines(sock) < MaxPending
    /\ \E ln \in TransportLines :
          /\ sock' = sock \o ln \o CRLF
          /\ Commit(World, "server_send", ln)
    /\ UNCHANGED <<line, line_offset>>

(* The bytes of the stream one call of sock_readline can take: it stops   *)
(* behind the first line end, so what arrived behind it makes no           *)
(* difference to the call.                                                 *)
WithinLine(s) == IF Has(s, "LF") THEN Find(s, "LF") ELSE Len(s)

(* One iteration of the main loop (parse_irc_line): k bytes of the stream  *)
(* have arrived; sock_readline stores them at line + line_offset, and the  *)
(* line is parsed if they complete one.                                    *)
ReadBytes(k) ==
    /\ Running
    /\ \E r \in {sock_readline(Take(line, line_offset), Take(sock, k))} :
          /\ sock' = Drop(sock, k - Len(r.rest))
          /\ IF r.n = "EAGAIN"
             THEN /\ line' = r.buf
                  /\ line_offset' = eagain_offset(r.buf)
                  /\ Commit(World, "eagain", <<>>)
             ELSE /\ line_offset' = 0
                  /\ \E w \in parse_irc_line(World, r.buf) :
                        /\ Len(children) + Len(w.spawn) <= MaxChildren
                        /\ line' = line_residue(r.buf, w.route)
                        /\ Commit(w, "parse_irc_line", r.buf)

ReadSock == \E k \in 0..WithinLine(sock) : ReadBytes(k)

(* A forked child dies in its handler.                                     *)
ChildCrash ==
    /\ ~ub
    /\ \E k \in 1..Len(children) :
          /\ children' = SubSeq(children, 1, k - 1) \o SubSeq(children, k + 1, Len(children))
          /\ out' = <<>>
          /\ last' = [op |-> "child_crash", arg |-> children[k].command, route |-> "child",
                      target |-> children[k].target, fork |-> "none", level |-> 0,
                      answer |-> <<>>, stale |-> FALSE, verified |-> FALSE,
                      offset |-> 0]
          /\ nickEnd' = 0
          /\ chanIdx' = {}
          /\ ret' = <<>>
          /\ UNCHANGED <<nick, user, channels, channels_set, isConnected,
                         alive, ub, line, line_offset, sock, pipe, pipe_open>>

NextLine == ServerSend \/ ReadSock \/ ChildRun \/ ChildCrash

SpecLine == Init /\ [][NextLine]_vars

---------------------------------------------------------------------------
(* The handlers in their own processes and the pipe of the Identity Query. *)

(* The most children alive at once, and the most levels in the pipe.       *)
MaxHandlers == 2

MaxPipe == 2

FromOther == <<":", "j", "!", "h">>
FromNickServ == <<":">> \o sNickServ \o <<"!", "s">>

(* "!id" from a user, and the answer of the service about nick n.          *)
LineIdent(from) == Words(Words(from, sPRIVMSG), Words(ChanA, <<":", "!">> \o sIdent))

LineAcc(n, lvl) ==
    Words(Words(FromNickServ, sNOTICE),
          Words(Nick3, <<":">> \o n \o <<" ">> \o sACC \o <<" ">> \o lvl))

ProcLines == {LinePing, LineCommand(FromUser, ChanA), LineIdent(FromUser), LineIdent(FromOther),
              LineAcc(<<"k">>, <<"3">>), LineAcc(<<"j">>, <<"1">>), LineEndOfMotd}

(* One iteration of the main loop on a line that arrived whole: line[]     *)
(* holds what the parsing left of it.                                      *)
RecvOne(ln) ==
    /\ Running
    /\ \E w \in parse_irc_line(World, ln) :
          /\ Len(children) + Len(w.spawn) <= MaxHandlers
          /\ Len(w.pipe) <= MaxPipe
          /\ line' = line_residue(ln, w.route)
          /\ Commit(w, "parse_irc_line", ln)
    /\ UNCHANGED <<line_offset, sock>>

RecvProc == \E ln \in ProcLines : RecvOne(ln)

Without(seq, k) == SubSeq(seq, 1, k - 1) \o SubSeq(seq, k + 1, Len(seq))

(* The handler of "!id" in its child, up to the read of line 73: the query *)
(* for the sender goes out (line 72).  stale counts the levels that were   *)
(* in the pipe before the query was sent.                                  *)
ChildQuery ==
    /\ ~ub
    /\ \E k \in 1..Len(children) :
          LET c == children[k]
              w == user_is_identified_query([World EXCEPT !.route = "child"], c.sender)
          IN  /\ c.function = "identified"
              /\ c.pc = "start"
              /\ out' = w.out
              /\ last' = [op |-> "child_query", arg |-> c.sender, route |-> "child",
                          target |-> c.target, fork |-> "none", level |-> 0,
                          answer |-> <<>>, stale |-> FALSE, verified |-> FALSE,
                          offset |-> 0]
              /\ children' = [children EXCEPT ![k].pc = "read", ![k].stale = Len(pipe)]
              /\ nickEnd' = 0
              /\ chanIdx' = {}
              /\ ret' = <<>>
              /\ UNCHANGED <<nick, user, channels, channels_set, isConnected,
                             alive, ub, line, line_offset, sock, pipe, pipe_open>>

(* Lines 73-79 in the child: read() returns once the pipe holds a level    *)
(* and takes the oldest one; the child closes its descriptors and the      *)
(* handler, having its answer, exits.                                      *)
ChildRead ==
    /\ ~ub
    /\ \E k \in 1..Len(children) :
          LET c == children[k]
              auth_level == Head(pipe).level
              rest == Without(children, k)
          IN  /\ c.function = "identified"
              /\ c.pc = "read"
              /\ pipe # <<>>
              /\ pipe' = Tail(pipe)
              /\ pipe_open' = close_in_child(pipe_open)
              /\ out' = <<>>
              /\ last' = [op |-> "child_read", arg |-> c.sender, route |-> "child",
                          target |-> c.target, fork |-> "none", level |-> auth_level,
                          answer |-> Head(pipe).nick, stale |-> c.stale > 0,
                          verified |-> auth_verified(auth_level), offset |-> 0]
              /\ children' = [j \in 1..Len(rest) |->
                                 [rest[j] EXCEPT !.stale = IF @ > 0 THEN @ - 1 ELSE 0]]
              /\ nickEnd' = 0
              /\ chanIdx' = {}
              /\ ret' = <<>>
              /\ UNCHANGED <<nick, user, channels, channels_set, isConnected,
                             alive, ub, line, line_offset, sock>>

NextProc == RecvProc \/ ChildRun \/ ChildQuery \/ ChildRead \/ ChildCrash

SpecProc == Init /\ [][NextProc]_vars

---------------------------------------------------------------------------
(* Lines that lack a token, and command tokens that begin with digits.     *)

(* The payload is missing behind a server command and behind a reply code; *)
(* the target is missing where two blanks end the line; the command of a   *)
(* PRIVMSG, the text of a NOTICE and the victim of a KICK are missing.     *)
LineNoSender == <<":">>
LineNoCommand == FromServer
LineNoPayload == Words(FromServer, sMODE)
LineCodeNoPayload == Words(FromServer, <<"4", "3", "3">>)
LineNoTarget(cmd) == Words(Words(FromUser, cmd), <<" ">>)
LinePrivmsgNoCommand == Words(Words(FromUser, sPRIVMSG), ChanA)
LineNoticeNoText == Words(Words(FromNickServ, sNOTICE), Nick3)
LineKickNoVictim == Words(Words(FromUser, sKICK), ChanB)

MissingTokenLines ==
    {LineNoSender, LineNoCommand, LineNoPayload, LineCodeNoPayload,
     LineNoTarget(sPRIVMSG), LineNoTarget(sNOTICE), LineNoTarget(sKICK),
     LinePrivmsgNoCommand, LineNoticeNoText, LineKickNoVictim}

LineToken(tok) == Words(Words(FromServer, tok), Words(<<"*">>, Payload))

DigitTokenLines ==
    {LineToken(<<"4", "3", "3", "x">>), LineToken(<<"3", "7", "6", "x">>),
     LineToken(<<"-", "4", "3", "3">>)}

ParseLines == MissingTokenLines \cup DigitTokenLines
                 \cup {LineNickInUse, LineEndOfMotd, LineMode}

RecvParse == \E ln \in ParseLines : RecvOne(ln)

NextParse == SetNick \/ JoinChannel \/ RecvParse

SpecParse == Init /\ [][NextParse]_vars

---------------------------------------------------------------------------
(* What the claims speak of.                                               *)

Parsed(ln) == last'.op = "parse_irc_line" /\ last'.arg = ln

JoinMsg(ch) == sJOIN \o <<" ">> \o ch \o CRLF

IsJoinMsg(m) == starts_with(m, sJOIN \o <<" ">>)

NoJoin(o) == \A k \in 1..Len(o) : ~IsJoinMsg(o[k])

Recorded(ch) == \E j \in 0..(channels_set - 1) : InRow(j) /\ channels[j] = ch

RecordedNames == {channels[j] : j \in {k \in 0..(MAXCHANS - 1) : k < channels_set}}

KickerMsg(ch) == sPRIVMSG \o <<" ">> \o ch \o <<" ", ":", "k">> \o sMagkas \o CRLF

---------------------------------------------------------------------------
(* C1: in every reachable state of a running connection, whatever join     *)
(* requests, KICK lines and numeric replies came before, the number of     *)
(* recorded channels is at most MAXCHANS.                                  *)
C1_ChannelsWithinCapacity == alive => channels_set <= MAXCHANS

(* C2: no operation stores past the NICKLEN bytes of nick[], and the nick  *)
(* read there is never longer than NICKLEN, however many nickname-in-use   *)
(* replies and set_nick calls there were.                                  *)
C2_NickWithinBuffer == nickEnd <= NICKLEN /\ Len(NickStr(World)) <= NICKLEN

(* C3: connected turns true only in the step that handles an end-of-MOTD   *)
(* reply, and once true no operation of a running connection sets it back  *)
(* to false.                                                               *)
C3_ConnectedOnceNeverReverts ==
    [][/\ (~isConnected /\ isConnected') => Parsed(LineEndOfMotd)
       /\ (isConnected /\ alive') => isConnected']_vars

(* C4: join_channel with a name, called while the set holds MAXCHANS       *)
(* entries, returns -1, leaves the count and the rows as they are and      *)
(* sends nothing, connected or not.                                        *)
C4_JoinAtCapacityFails ==
    [][(last'.op = "join_channel" /\ channels_set = MAXCHANS)
          => (/\ ret' = <<-1>>
              /\ channels_set' = channels_set
              /\ channels' = channels
              /\ out' = <<>>
              /\ isConnected' = isConnected)]_vars

C4_Witness == /\ last.op = "join_channel" /\ ret = <<-1>>
              /\ channels_set = MAXCHANS /\ isConnected /\ out = <<>>

(* C5: while connected is false no step sends a JOIN unless it handles an  *)
(* end-of-MOTD reply; the step that does sends exactly one JOIN per        *)
(* recorded channel, in storage order; and the replay of the recorded      *)
(* channels (join_channel without a name) runs once per session, that is,  *)
(* never in a step that starts connected.                                  *)
C5_DeferredJoinReplayedOnce ==
    [][/\ (~isConnected /\ ~Parsed(LineEndOfMotd)) => NoJoin(out')
       /\ (~isConnected /\ Parsed(LineEndOfMotd) /\ InRow(channels_set - 1))
             => out' = [k \in 1..channels_set |-> JoinMsg(channels[k - 1])]
       /\ isConnected => ~(last'.route = "numeric" /\ ret' # <<>>)]_vars

(* C6: with "#a", "#b", "#c" recorded, after a KICK of our own nick from   *)
(* "#b" has been handled the set has exactly 2 entries.                    *)
C6_TwoEntriesAfterKick ==
    [][(/\ channels_set = 3 /\ RecordedNames = ChanInputs
        /\ \E from \in {FromUser, FromServer} : Parsed(LineKick(from, NickStr(World))))
          => channels_set' = 2]_vars

(* C6 as amended: the set has exactly 3 entries afterwards, "#a", "#b" and *)
(* "#c", in whatever order.                                                *)
C6_ThreeEntriesAfterKick ==
    [][(/\ channels_set = 3 /\ RecordedNames = ChanInputs
        /\ \E from \in {FromUser, FromServer} : Parsed(LineKick(from, NickStr(World))))
          => (/\ channels_set' = 3
              /\ {channels'[j] : j \in 0..2} = ChanInputs)]_vars

C6_Witness == /\ last.op = "parse_irc_line" /\ last.arg = LineKick(FromUser, nick)
              /\ channels_set = 3
              /\ channels = (0 :> <<"#", "a">> @@ 1 :> <<"#", "c">> @@ 2 :> <<"#", "b">>)
              /\ Len(out) > 0

(* C7: the step that handles a KICK of our own nick from a recorded        *)
(* channel sends a JOIN for the channel and then a message to the channel  *)
(* that names the kicker.                                                  *)
C7_KickSendsJoinThenMessage ==
    [][(/\ Recorded(ChanB)
        /\ \E from \in {FromUser, FromServer} : Parsed(LineKick(from, NickStr(World))))
          => \E i, j \in 1..Len(out') :
                i < j /\ out'[i] = JoinMsg(ChanB) /\ starts_with(out'[j], sPRIVMSG \o <<" ">> \o ChanB)]_vars

(* C7 as amended: when the KICK comes from a sender of the form nick!host  *)
(* and the connection is connected, the step sends exactly the JOIN for    *)
(* the channel and then the message to the channel naming the kicker.      *)
C7_ConnectedKickSendsJoinThenMessage ==
    [][(/\ Recorded(ChanB) /\ isConnected
        /\ Parsed(LineKick(FromUser, NickStr(World))))
          => out' = <<JoinMsg(ChanB), KickerMsg(ChanB)>>]_vars

C7_Witness == /\ last.op = "parse_irc_line" /\ last.arg = LineKick(FromUser, nick)
              /\ isConnected /\ ~ub
              /\ out = <<JoinMsg(ChanB), KickerMsg(ChanB)>>

(* C8: the step that handles a nickname-in-use reply appends exactly one   *)
(* "_" to the nick and sends exactly one NICK with the new nick: from      *)
(* "bot" the first reply sends NICK bot_, the second NICK bot__.           *)
C8_CollisionAppendsOneUnderscore ==
    [][Parsed(LineNickInUse)
          => (/\ NickStr(World)' = NickStr(World) \o <<"_">>
              /\ out' = <<sNICK \o <<" ">> \o NickStr(World)' \o CRLF>>)]_vars

(* C9: the step that handles a line beginning with PING and a token sends  *)
(* exactly one PONG with that token and nothing else; the line reaches     *)
(* neither the generic parsing nor the numeric-reply handler nor a         *)
(* registered handler, so nick, channels and connected are as before.      *)
C9_PingAnsweredOnce ==
    [][\A ln \in {LinePing, LinePingDigits} :
          Parsed(ln)
             => (/\ out' = <<sPONG \o <<" ">> \o SubSeq(ln, 6, Len(ln)) \o CRLF>>
                 /\ last'.route = "ping"
                 /\ nick' = nick /\ channels' = channels
                 /\ channels_set' = channels_set /\ isConnected' = isConnected
                 /\ children' = children)]_vars

C9_Witness == /\ last.op = "parse_irc_line" /\ last.arg = LinePingDigits
              /\ out = <<sPONG \o <<" ", "4", "3", "3", " ", "x", "CR", "LF">>>>
              /\ nick = Nick3

---------------------------------------------------------------------------
(* The bytes of the stream not parsed yet: the tail kept in line[] and     *)
(* what waits in the socket.                                               *)
Pending == Take(line, line_offset) \o sock

HasLine(s) == StrStr(s, CRLF) # 0

FirstLine(s) == SubSeq(s, 1, StrStr(s, CRLF) - 1)

ConnUnchanged == UNCHANGED <<nick, user, channels, channels_set, isConnected>>

(* C11: however the bytes of a line arrive (in chunks of any size, after   *)
(* reads that brought nothing, after a line already processed), a read     *)
(* that completes no line reports "no line yet", sends nothing, changes    *)
(* nothing of the connection and keeps the stream as it is; and the line   *)
(* parsed is the first line of the stream as the server sent it, handled   *)
(* as parse_irc_line handles that line when it comes in one piece.         *)
C11_LineReassembly ==
    [][/\ last'.op = "eagain"
            => (/\ Pending' = Pending
                /\ line_offset' = Len(line')
                /\ out' = <<>> /\ ConnUnchanged /\ children' = children)
       /\ last'.op = "parse_irc_line"
            => (/\ HasLine(Pending)
                /\ last'.arg = FirstLine(Pending)
                /\ Pending' = Drop(Pending, Len(FirstLine(Pending)) + 2)
                /\ line_offset' = 0
                /\ \E w \in parse_irc_line(World, FirstLine(Pending)) :
                      /\ out' = w.out /\ nick' = w.nick
                      /\ channels' = w.channels /\ channels_set' = w.channels_set
                      /\ isConnected' = w.isConnected
                      /\ children' = children \o w.spawn)]_vars

(* The end-of-MOTD line was put together from a kept tail that ended in    *)
(* the CR, the LF arriving alone.                                          *)
C11_Witness == /\ last.op = "parse_irc_line" /\ last.arg = LineEndOfMotd
               /\ last.offset = Len(LineEndOfMotd) + 1
               /\ isConnected /\ line_offset = 0
               /\ line = FromServer

LineList == LineCommand(FromUser, ChanA)

ListChild == [function |-> "list", sender |-> <<"k">>, command |-> sList,
              target |-> ChanA, message |-> Null, pc |-> "start", stale |-> 0]

(* C12: while handlers are running, dead or never scheduled, the main     *)
(* loop can take its next step.  The step that dispatches a "!list"        *)
(* command sends nothing and at most adds a child that has not begun: the  *)
(* parent neither runs the handler nor takes anything from it.  A line     *)
(* parsed while handlers are there is the first line of the stream, and    *)
(* the stream moves on by that line.  A handler that dies leaves the main  *)
(* process running and its stream as it was.                               *)
C12_MainLoopNeverWaits ==
    /\ [](Running => ENABLED ReadSock)
    /\ [][/\ (last'.op = "parse_irc_line" /\ last'.arg = LineList)
               => (/\ out' = <<>>
                   /\ children' \in {children, Append(children, ListChild)})
          /\ (last'.op = "parse_irc_line" /\ children # <<>>)
               => (/\ HasLine(Pending) /\ last'.arg = FirstLine(Pending)
                   /\ Pending' = Drop(Pending, Len(FirstLine(Pending)) + 2))
          /\ last'.op = "child_crash"
               => (alive' = alive /\ Pending' = Pending)]_vars

(* A line sent after the command was parsed while the handler forked for   *)
(* the command had not run.                                                *)
C12_Witness == /\ children = <<ListChild>>
               /\ last.op = "parse_irc_line" /\ last.arg = LineEndOfMotd
               /\ isConnected /\ alive

---------------------------------------------------------------------------
(* The handlers in their children.                                         *)

ChildStep == last'.route = "child"

IsPrefix(a, b) == Len(a) <= Len(b) /\ SubSeq(b, 1, Len(a)) = a

(* C13: no step of a handler in its child (the run of "!list", the query   *)
(* and the read of "!id", a crash) changes nick, user, the channel rows    *)
(* and their count, the connected flag, the line buffer and its offset, or *)
(* the pipe descriptors of the main process; and no step of the main loop  *)
(* changes the copy a child already has.                                   *)
C13_HandlerHasPrivateCopy ==
    [][/\ ChildStep => UNCHANGED <<nick, user, channels, channels_set, isConnected,
                                    line, line_offset, pipe_open, alive>>
       /\ ~ChildStep => IsPrefix(children, children')]_vars

(* A handler has read its level and closed its descriptors after the main  *)
(* loop went on to the end of the MOTD and to other lines.                 *)
C13_Witness ==
    /\ last.op = "child_read"
    /\ isConnected
    /\ line # <<>>
    /\ pipe_open
    /\ alive
    /\ children # <<>>

---------------------------------------------------------------------------
(* The Identity Query.                                                     *)

QueryMsg(n) ==
    sPRIVMSG \o <<" ">> \o sNickServ \o <<" ", ":">> \o sACC \o <<" ">> \o n \o CRLF

(* The children that sent their query and sit in the read of line 73.      *)
Waiting(cs) == {k \in 1..Len(cs) : cs[k].function = "identified" /\ cs[k].pc = "read"}

(* C14: user_is_identified sends "ACC <nick>" to the service and stays in  *)
(* its read: with no level in the pipe no query can return, while the main *)
(* loop can go on.  Levels come into the pipe only from the NOTICE         *)
(* handler.  A query returns only in a step that takes one level from the  *)
(* pipe, and its result is "verified" exactly when that level is 3.        *)
C14_IdentityQueryBlocks ==
    /\ []((pipe = <<>>) => ~ENABLED ChildRead)
    /\ [](Running => ENABLED RecvOne(LinePing))
    /\ [][/\ last'.op = "child_query"
               => (/\ out' = <<QueryMsg(last'.arg)>>
                   /\ Len(children') = Len(children)
                   /\ Cardinality(Waiting(children')) = Cardinality(Waiting(children)) + 1
                   /\ pipe' = pipe)
          /\ Len(pipe') > Len(pipe)
               => (last'.op = "parse_irc_line" /\ last'.route = "irc_notice"
                   /\ Len(pipe') = Len(pipe) + 1)
          /\ Cardinality(Waiting(children')) < Cardinality(Waiting(children))
               => last'.op \in {"child_read", "child_crash"}
          /\ last'.op = "child_read"
               => (/\ pipe # <<>>
                   /\ pipe' = Tail(pipe)
                   /\ last'.level = Head(pipe).level
                   /\ last'.verified <=> (Head(pipe).level = 3)
                   /\ Cardinality(Waiting(children')) = Cardinality(Waiting(children)) - 1)
         ]_vars

(* One query has returned verified on level 3; another one still waits on  *)
(* an empty pipe.                                                          *)
C14_Witness ==
    /\ last.op = "child_read"
    /\ last.level = 3
    /\ last.verified
    /\ pipe = <<>>
    /\ Waiting(children) # {}
    /\ alive

(* C16: when fork() fails for a registered "!command", the step of the     *)
(* main loop that parsed the line sends nothing, starts no child, leaves   *)
(* nick, user, channels, their count, the connected flag and the pipe as   *)
(* they were, and the main process is running afterwards.                  *)
C16_ForkFailureSkipsCommand ==
    [][(last'.op = "parse_irc_line" /\ last'.fork = "failed")
          => (/\ out' = <<>>
              /\ children' = children
              /\ UNCHANGED <<nick, user, channels, channels_set, isConnected,
                             pipe, pipe_open>>
              /\ alive' /\ ~ub')]_vars

(* The fork for "!id" failed on a connected bot with a handler running.    *)
C16_Witness ==
    /\ last.op = "parse_irc_line"
    /\ last.fork = "failed"
    /\ last.arg = LineIdent(FromUser)
    /\ isConnected
    /\ children # <<>>
    /\ out = <<>>
    /\ alive

(* C19: the level a query for nick N has read is the level the NOTICE      *)
(* handler took from the service's answer about N, written after the query *)
(* was sent: never the answer about another nick, never a level that was   *)
(* in the pipe before the query.                                           *)
C19_LevelBelongsToQuery ==
    last.op = "child_read" => (last.answer = last.arg /\ ~last.stale)

---------------------------------------------------------------------------
(* Malformed lines and the routing of the command token.                   *)

(* C15: a line that lacks its sender, command or payload, or whose         *)
(* PRIVMSG, NOTICE or KICK lacks the target, the command, the text or the  *)
(* victim, is dropped silently: the step that parsed it sends nothing,     *)
(* leaves nick, user, channels, their count and the connected flag as they *)
(* were, and the main process is running afterwards.                       *)
C15_MissingTokenDropped ==
    [][(last'.op = "parse_irc_line" /\ last'.arg \in MissingTokenLines)
          => (/\ out' = <<>>
              /\ ConnUnchanged
              /\ children' = children
              /\ alive' /\ ~ub')]_vars

(* The command token of a line (line 159).                                 *)
CommandToken(ln) == strtok_sp(strtok_sp(Tail(ln)).rest).tok

(* The whole token is a positive integer in decimal digits.                *)
WholePositive(tok) ==
    /\ tok # Null
    /\ tok # <<>>
    /\ \A i \in 1..Len(tok) : tok[i] \in Digits
    /\ AtoiAcc(tok, 0) > 0

(* C17: a line with sender, command and payload goes to numeric_reply      *)
(* exactly when its whole command token is a positive integer; with any    *)
(* other token, one that only begins with digits included, the nick and    *)
(* the connected flag stay as they were.                                   *)
C17_NumericRouting ==
    [][(last'.op = "parse_irc_line" /\ last'.route \notin {"ping", "dropped"})
          => (/\ (last'.route = "numeric") <=> WholePositive(CommandToken(last'.arg))
              /\ ~WholePositive(CommandToken(last'.arg))
                    => (nick' = nick /\ isConnected' = isConnected))]_vars

---------------------------------------------------------------------------
(* The rows of channels[][].                                               *)

(* C18: in every reachable state the count of recorded channels is at      *)
(* least 0, and every row of channels[][] that the last operation read or  *)
(* wrote (join_channel, the replay after the MOTD, kick recovery) has an   *)
(* index in 0..MAXCHANS-1, also when the KICK named a channel that is not  *)
(* recorded.                                                               *)
C18_ChannelIndexInBounds ==
    /\ channels_set >= 0
    /\ \A i \in chanIdx : InRow(i)

(* How many of the first n rows of chs hold the name ch.                   *)
TimesRecorded(chs, n, ch) == Cardinality({j \in 0..(n - 1) : InRow(j) /\ chs[j] = ch})

RowNames(chs) == {chs[j] : j \in 0..(MAXCHANS - 1)}

(* C20: the step that handles a KICK of our own nick from a recorded       *)
(* channel leaves the count as it was, and every name is recorded as many  *)
(* times afterwards as before, the kicked channel included: only the order *)
(* of the rows may differ.                                                 *)
C20_KickRecoveryKeepsNames ==
    [][(/\ Recorded(ChanB)
        /\ \E from \in {FromUser, FromServer} : Parsed(LineKick(from, NickStr(World))))
          => (/\ channels_set' = channels_set
              /\ \A ch \in RowNames(channels) \cup RowNames(channels') :
                    TimesRecorded(channels', channels_set', ch)
                       = TimesRecorded(channels, channels_set, ch))]_vars

(* The bot was kicked from "#b" with three channels recorded: "#c" and     *)
(* "#a" are still there and "#b" is recorded once, in the last row.        *)
C20_Witness ==
    /\ last.op = "parse_irc_line"
    /\ last.arg = LineKick(FromUser, nick)
    /\ channels_set = 3
    /\ channels = (0 :> <<"#", "c">> @@ 1 :> <<"#", "a">> @@ 2 :> <<"#", "b">>)
    /\ alive /\ ~ub

=============================================================================
